---- MODULE Spec2Model ----
(***************************************************************************)
(* A model of convert.py (ChatGPT export reader): the per-conversation     *)
(* body of main(), with conversation_to_markdown, build_message_thread and *)
(* its recursive traverse (as an explicit call stack),                     *)
(* extract_message_text, get_first_user_message, count_messages and the    *)
(* title handling of generate_html_index.                                  *)
(*                                                                         *)
(* JSON values are tagged records: [k |-> kind, v |-> payload].  A key     *)
(* missing from a dict is the field value Absent.  Python strings are TLA+ *)
(* strings (Len, SubSeq and \o act on them character by character).        *)
(***************************************************************************)
EXTENDS Integers, Sequences, FiniteSets, TLC

VARIABLES
    conv,           \* the conversation object being processed (read-only input)
    pc,             \* position in the loop body of main()
    title,          \* main(): title
    md_title,       \* conversation_to_markdown(): title
    lines,          \* conversation_to_markdown(): lines
    children_map,   \* build_message_thread(): children_map
    root,           \* build_message_thread(): root
    stack,          \* call stack of traverse(): frames [id, i], top is last
    visited,        \* build_message_thread(): visited
    messages,       \* build_message_thread(): messages
    message,        \* traverse(): message of the node processed last
    text,           \* traverse(): text extracted from it
    preview,        \* main(): preview
    message_count,  \* main(): message_count
    err,            \* the exception that ended the run, or NoErr
    emitted,        \* history: ids of the nodes whose message was appended
    passed          \* history: number of traverse calls that passed the guard

vars == <<conv, pc, title, md_title, lines, children_map, root, stack, visited,
          messages, message, text, preview, message_count, err, emitted, passed>>

(***************************************************************************)
(* Bounds of the model.                                                    *)
(***************************************************************************)
MaxEdges == 3       \* total number of entries of all children lists
MaxParts == 2       \* number of parts of a content payload
MaxDepth == 6       \* cap on the depth of the traverse call stack
LongLen == 152      \* length of the longest text

(***************************************************************************)
(* JSON values.                                                            *)
(***************************************************************************)
Absent == [k |-> "absent"]
None == [k |-> "null"]
JStr(s) == [k |-> "str", v |-> s]
JNum(n) == [k |-> "num", v |-> n]
JList(q) == [k |-> "list", v |-> q]
JDict(r) == [k |-> "dict", v |-> r]

IsDict(x) == x.k = "dict"
IsStr(x) == x.k = "str"

\* dict.get(key) and dict.get(key, default) on the field value f of a dict.
Get(f) == IF f = Absent THEN None ELSE f
GetOr(f, default) == IF f = Absent THEN default ELSE f

\* A dict is empty when none of its keys is present.
EmptyDict(x) == \A f \in DOMAIN x.v : x.v[f] = Absent

\* Python truth value of a JSON value.
Truthy(x) ==
    CASE x.k = "null" -> FALSE
      [] x.k = "str" -> x.v # ""
      [] x.k = "num" -> x.v # 0
      [] x.k = "list" -> x.v # <<>>
      [] x.k = "dict" -> ~EmptyDict(x)

\* Results of the modelled functions: a JSON value, or a raised exception.
Raise(exc, where) == [k |-> "raise", exc |-> exc, where |-> where]
Raised(x) == x.k = "raise"
NoErr == [k |-> "ok"]

\* str(x) as an f-string formats it.
Format(x) ==
    CASE x.k = "str" -> x.v
      [] x.k = "null" -> "None"
      [] x.k = "num" -> ToString(x.v)
      [] OTHER -> "<object>"

(***************************************************************************)
(* extract_message_text                                                    *)
(***************************************************************************)
\* Each ' stands for one backquote, which a TLA+ string cannot hold.
Fence == "'''"
ImagePlaceholder == "[Image]"

\* AppendPart with a truth test on a string part: `if part and isinstance(..)`.
AppendNonEmptyPart(text_parts, part) ==
    IF IsStr(part)
    THEN (IF part.v # "" THEN Append(text_parts, part) ELSE text_parts)
    ELSE IF IsDict(part)
         THEN IF Get(part.v.content_type) = JStr("image_asset_pointer")
              THEN Append(text_parts, JStr(ImagePlaceholder))
              ELSE IF part.v.text # Absent
                   THEN Append(text_parts, part.v.text)
                   ELSE text_parts
         ELSE text_parts

\* The body of the loop over parts: text_parts after one more part.
AppendPart(text_parts, part) ==
    IF IsStr(part) THEN Append(text_parts, part)
    ELSE IF IsDict(part)
         THEN IF Get(part.v.content_type) = JStr("image_asset_pointer")
              THEN Append(text_parts, JStr(ImagePlaceholder))
              ELSE IF part.v.text # Absent
                   THEN Append(text_parts, part.v.text)
                   ELSE text_parts
         ELSE text_parts

RECURSIVE CollectParts(_, _)
CollectParts(parts, text_parts) ==
    IF parts = <<>> THEN text_parts
    ELSE CollectParts(Tail(parts), AppendPart(text_parts, Head(parts)))

\* '\n'.join(text_parts) for a non-empty list of strings.
RECURSIVE JoinNewline(_)
JoinNewline(text_parts) ==
    IF Len(text_parts) = 1 THEN Head(text_parts).v
    ELSE Head(text_parts).v \o "\n" \o JoinNewline(Tail(text_parts))

JoinOrNone(text_parts) ==
    IF text_parts = <<>> THEN None
    ELSE IF \E i \in 1..Len(text_parts) : ~IsStr(text_parts[i])
         THEN Raise("TypeError", "extract_message_text")
         ELSE JStr(JoinNewline(text_parts))

ExtractTextContent(content) ==
    LET parts == GetOr(content.v.parts, JList(<<>>))
    IN  IF parts.k # "list"
        THEN Raise("TypeError", "extract_message_text")
        ELSE JoinOrNone(CollectParts(parts.v, <<>>))

ExtractCodeContent(content) ==
    JStr(Fence \o "\n" \o Format(GetOr(content.v.text, JStr(""))) \o "\n" \o Fence)

extract_message_text(m) ==
    IF ~Truthy(m) THEN None
    ELSE IF ~IsDict(m) THEN Raise("TypeError", "extract_message_text")
    ELSE IF m.v.content = Absent THEN None
    ELSE LET content == m.v.content
         IN  IF ~IsDict(content)
             THEN Raise("AttributeError", "extract_message_text")
             ELSE LET content_type == GetOr(content.v.content_type, JStr(""))
                  IN  IF content_type \in {JStr("text"), JStr("multimodal_text")}
                      THEN ExtractTextContent(content)
                      ELSE IF content_type = JStr("code")
                           THEN ExtractCodeContent(content)
                           ELSE None

(***************************************************************************)
(* The mapping: a sequence of entries [id, node] in iteration order, each  *)
(* node a dict with the keys parent, children and message.                 *)
(***************************************************************************)
Mapping == conv.mapping

Keys(mapping) == {mapping[i].id : i \in 1..Len(mapping)}

\* nodes.get(node_id)
NodeOf(mapping, node_id) ==
    IF node_id \in Keys(mapping)
    THEN (CHOOSE e \in {mapping[i] : i \in 1..Len(mapping)} : e.id = node_id).node
    ELSE None

\* message.get('author', {}).get('role', default)
AuthorRole(m, default, where) ==
    IF ~IsDict(m) THEN Raise("AttributeError", where)
    ELSE LET author == GetOr(m.v.author, JDict([role |-> Absent]))
         IN  IF ~IsDict(author) THEN Raise("AttributeError", where)
             ELSE GetOr(author.v.role, default)

(***************************************************************************)
(* build_message_thread                                                    *)
(***************************************************************************)
\* The parent -> children index (built, and never read by the traversal).
RECURSIVE ChildrenMap(_, _)
ChildrenMap(mapping, acc) ==
    IF mapping = <<>> THEN acc
    ELSE LET e == Head(mapping)
             parent == Get(e.node.v.parent)
         IN  ChildrenMap(Tail(mapping),
                IF Truthy(parent)
                THEN [p \in DOMAIN acc \cup {parent} |->
                        IF p = parent
                        THEN (IF p \in DOMAIN acc THEN acc[p] ELSE <<>>) \o <<e.id>>
                        ELSE acc[p]]
                ELSE acc)

\* The first node, in iteration order, whose parent is None.
RECURSIVE FindRoot(_)
FindRoot(mapping) ==
    IF mapping = <<>> THEN None
    ELSE IF Get(Head(mapping).node.v.parent) = None
         THEN JStr(Head(mapping).id)
         ELSE FindRoot(Tail(mapping))

\* `if not root`
NoRoot(r) == ~Truthy(r)

\* traverse without its visited.add(node_id).
MarkVisitedNoop(v, node_id) == v

\* visited.add(node_id)
MarkVisited(v, node_id) == v \cup {node_id}

\* traverse without its visited guard.
NeverVisited(v, node_id) == FALSE

\* `if node_id in visited`
AlreadyVisited(v, node_id) == node_id \in v

DisplayRoles == {JStr("user"), JStr("assistant"), JStr("tool")}

\* `if text and author in ('user', 'assistant', 'tool')`
Displayable(author, t) == Truthy(t) /\ author \in DisplayRoles

\* The children list of a node, as the for loop iterates it.
ChildrenOf(node) == GetOr(node.v.children, JList(<<>>))

\* The stack after the call on its top has returned.
Pop(s) == SubSeq(s, 1, Len(s) - 1)

Top == stack[Len(stack)]

\* pc after traverse has returned to a stack s.
AfterReturn(s) == IF s = <<>> THEN "render" ELSE "traverse"

(***************************************************************************)
(* get_first_user_message and count_messages                               *)
(***************************************************************************)
PreviewLimit == 150

Whitespace == {" ", "\t", "\n", "\r"}

\* text.replace('\n', ' ')
RECURSIVE ReplaceNewlines(_)
ReplaceNewlines(s) ==
    IF Len(s) = 0 THEN ""
    ELSE IF Len(s) = 1 THEN (IF s = "\n" THEN " " ELSE s)
    ELSE ReplaceNewlines(SubSeq(s, 1, Len(s) \div 2))
            \o ReplaceNewlines(SubSeq(s, Len(s) \div 2 + 1, Len(s)))

\* str.strip()
Strip(s) ==
    LET inner == {i \in 1..Len(s) : SubSeq(s, i, i) \notin Whitespace}
    IN  IF inner = {} THEN ""
        ELSE SubSeq(s, CHOOSE i \in inner : \A j \in inner : i <= j,
                       CHOOSE i \in inner : \A j \in inner : i >= j)

\* s[:n].rsplit(' ', 1)[0] for a longer s, as sanitize_filename cuts a title.
TruncateAtWord(s, n) ==
    IF Len(s) <= n THEN s
    ELSE LET blanks == {i \in 1..n : SubSeq(s, i, i) = " "}
         IN  IF blanks = {} THEN SubSeq(s, 1, n)
             ELSE SubSeq(s, 1, (CHOOSE i \in blanks : \A j \in blanks : i >= j) - 1)

\* s[:n]
Truncate(s, n) == SubSeq(s, 1, IF Len(s) < n THEN Len(s) ELSE n)

PreviewOf(s) == Truncate(Strip(ReplaceNewlines(s)), PreviewLimit)

RECURSIVE FirstUserMessage(_)
FirstUserMessage(mapping) ==
    IF mapping = <<>> THEN JStr("")
    ELSE LET m == Get(Head(mapping).node.v.message)
         IN  IF ~Truthy(m) THEN FirstUserMessage(Tail(mapping))
             ELSE LET role == AuthorRole(m, None, "get_first_user_message")
                  IN  IF Raised(role) THEN role
                      ELSE IF role # JStr("user") THEN FirstUserMessage(Tail(mapping))
                      ELSE LET t == extract_message_text(m)
                           IN  IF Raised(t) THEN t
                               ELSE IF Truthy(t) THEN JStr(PreviewOf(t.v))
                               ELSE FirstUserMessage(Tail(mapping))

get_first_user_message(mapping) == FirstUserMessage(mapping)

CountedRoles == {JStr("user"), JStr("assistant")}

\* The role test of the traversal in place of that of the count.
CountedWithTool(role) == role \in CountedRoles \cup {JStr("tool")}

\* `if role in ('user', 'assistant')`
Counted(role) == role \in CountedRoles

RECURSIVE CountFrom(_, _)
CountFrom(mapping, count) ==
    IF mapping = <<>> THEN JNum(count)
    ELSE LET m == Get(Head(mapping).node.v.message)
         IN  IF ~Truthy(m) THEN CountFrom(Tail(mapping), count)
             ELSE LET role == AuthorRole(m, JStr(""), "count_messages")
                  IN  IF Raised(role) THEN role
                      ELSE CountFrom(Tail(mapping),
                                     IF Counted(role) THEN count + 1 ELSE count)

count_messages(mapping) == CountFrom(mapping, 0)

(***************************************************************************)
(* conversation_to_markdown                                                *)
(***************************************************************************)
RoleHeading(role) ==
    CASE role = "user" -> "## You"
      [] role = "assistant" -> "## ChatGPT"
      [] role = "tool" -> "## Tool Output"
      [] OTHER -> "## " \o role

RECURSIVE RenderMessages(_)
RenderMessages(msgs) ==
    IF msgs = <<>> THEN <<>>
    ELSE <<RoleHeading(Head(msgs).role), "", Head(msgs).text, "", "---", "">>
            \o RenderMessages(Tail(msgs))

\* conv.get('title', 'Untitled Conversation')
MarkdownTitle(c) == GetOr(c.title, JStr("Untitled Conversation"))

\* conv.get('title', 'Untitled') in main()
IndexTitle(c) == GetOr(c.title, JStr("Untitled"))

(***************************************************************************)
(* The state machine: the loop body of main() for one conversation.        *)
(***************************************************************************)
InitState(c) ==
    /\ conv = c
    /\ pc = "main"
    /\ title = None
    /\ md_title = None
    /\ lines = <<>>
    /\ children_map = <<>>
    /\ root = None
    /\ stack = <<>>
    /\ visited = {}
    /\ messages = <<>>
    /\ message = None
    /\ text = None
    /\ preview = None
    /\ message_count = None
    /\ err = NoErr
    /\ emitted = <<>>
    /\ passed = 0

\* main(): title = conv.get('title', 'Untitled')
MainTitle ==
    /\ pc = "main"
    /\ title' = IndexTitle(conv)
    /\ pc' = "markdown"
    /\ UNCHANGED <<conv, md_title, lines, children_map, root, stack, visited,
                   messages, message, text, preview, message_count, err,
                   emitted, passed>>

\* conversation_to_markdown() up to its call of build_message_thread(), and
\* build_message_thread() up to its call traverse(root).
ConversationToMarkdown ==
    /\ pc = "markdown"
    /\ md_title' = MarkdownTitle(conv)
    /\ lines' = <<"# " \o Format(md_title'), "", "", "---", "">>
    /\ IF Mapping = <<>>
       THEN /\ pc' = "render"
            /\ UNCHANGED <<children_map, root, stack>>
       ELSE /\ children_map' = ChildrenMap(Mapping, <<>>)
            /\ root' = FindRoot(Mapping)
            /\ IF NoRoot(root')
               THEN pc' = "render" /\ stack' = stack
               ELSE pc' = "traverse" /\ stack' = <<[id |-> root'.v, i |-> 0]>>
    /\ UNCHANGED <<conv, title, visited, messages, message, text, preview,
                   message_count, err, emitted, passed>>

\* traverse(node_id) from its first line to the start of its loop over children.
Enter ==
    /\ pc = "traverse"
    /\ Top.i = 0
    /\ LET node_id == Top.id
           node == NodeOf(Mapping, node_id)
           m == Get(node.v.message)
           author == AuthorRole(m, JStr("unknown"), "traverse")
           t == extract_message_text(m)
           create_time == Get(m.v.create_time)
           children == ChildrenOf(node)
       IN  IF AlreadyVisited(visited, node_id)
           THEN /\ stack' = Pop(stack)
                /\ pc' = AfterReturn(stack')
                /\ UNCHANGED <<visited, passed, messages, message, text, err, emitted>>
           ELSE /\ visited' = MarkVisited(visited, node_id)
                /\ passed' = passed + 1
                /\ IF ~Truthy(node)
                   THEN /\ stack' = Pop(stack)
                        /\ pc' = AfterReturn(stack')
                        /\ UNCHANGED <<messages, message, text, err, emitted>>
                   ELSE /\ message' = m
                        /\ IF ~Truthy(m)
                           THEN UNCHANGED <<messages, text, emitted>>
                           ELSE IF Raised(author)
                           THEN UNCHANGED <<messages, text, emitted>>
                           ELSE /\ text' = t
                                /\ IF ~Raised(t) /\ Displayable(author, t)
                                   THEN /\ messages' = Append(messages,
                                              [role |-> author.v, text |-> t.v,
                                               time |-> create_time])
                                        /\ emitted' = Append(emitted, node_id)
                                   ELSE UNCHANGED <<messages, emitted>>
                        /\ IF Truthy(m) /\ Raised(author)
                           THEN pc' = "raised" /\ err' = author /\ stack' = stack
                           ELSE IF Truthy(m) /\ Raised(t)
                           THEN pc' = "raised" /\ err' = t /\ stack' = stack
                           ELSE IF children.k # "list"
                           THEN /\ pc' = "raised"
                                /\ err' = Raise("TypeError", "traverse")
                                /\ stack' = stack
                           ELSE /\ pc' = pc
                                /\ err' = err
                                /\ stack' = [stack EXCEPT ![Len(stack)].i = 1]
    /\ UNCHANGED <<conv, title, md_title, lines, children_map, root, preview,
                   message_count>>

\* The loop over children: the next call traverse(child_id).
Descend ==
    /\ pc = "traverse"
    /\ Top.i >= 1
    /\ LET children == ChildrenOf(NodeOf(Mapping, Top.id)).v
       IN  /\ Top.i <= Len(children)
           /\ Len(stack) < MaxDepth
           /\ stack' = Append([stack EXCEPT ![Len(stack)].i = @ + 1],
                              [id |-> children[Top.i], i |-> 0])
    /\ UNCHANGED <<conv, pc, title, md_title, lines, children_map, root, visited,
                   messages, message, text, preview, message_count, err,
                   emitted, passed>>

\* The loop over children is over: traverse returns.
Return ==
    /\ pc = "traverse"
    /\ Top.i >= 1
    /\ Top.i > Len(ChildrenOf(NodeOf(Mapping, Top.id)).v)
    /\ stack' = Pop(stack)
    /\ pc' = AfterReturn(stack')
    /\ UNCHANGED <<conv, title, md_title, lines, children_map, root, visited,
                   messages, message, text, preview, message_count, err,
                   emitted, passed>>

\* conversation_to_markdown() after build_message_thread() has returned.
RenderMarkdown ==
    /\ pc = "render"
    /\ lines' = lines \o RenderMessages(messages)
    /\ pc' = "preview"
    /\ UNCHANGED <<conv, title, md_title, children_map, root, stack, visited,
                   messages, message, text, preview, message_count, err,
                   emitted, passed>>

\* main(): preview = get_first_user_message(conv.get('mapping', {}))
GetFirstUserMessage ==
    /\ pc = "preview"
    /\ LET r == get_first_user_message(Mapping)
       IN  IF Raised(r)
           THEN pc' = "raised" /\ err' = r /\ preview' = preview
           ELSE pc' = "count" /\ err' = err /\ preview' = r
    /\ UNCHANGED <<conv, title, md_title, lines, children_map, root, stack,
                   visited, messages, message, text, message_count, emitted,
                   passed>>

\* main(): message_count = count_messages(conv.get('mapping', {}))
CountMessages ==
    /\ pc = "count"
    /\ LET r == count_messages(Mapping)
       IN  IF Raised(r)
           THEN pc' = "raised" /\ err' = r /\ message_count' = message_count
           ELSE pc' = "index" /\ err' = err /\ message_count' = r
    /\ UNCHANGED <<conv, title, md_title, lines, children_map, root, stack,
                   visited, messages, message, text, preview, emitted, passed>>

\* generate_html_index(): the uses of c['title'] for the conversation's entry.
GenerateHtmlIndex ==
    /\ pc = "index"
    /\ IF IsStr(title)
       THEN pc' = "done" /\ err' = err
       ELSE pc' = "raised" /\ err' = Raise("AttributeError", "generate_html_index")
    /\ UNCHANGED <<conv, title, md_title, lines, children_map, root, stack,
                   visited, messages, message, text, preview, message_count,
                   emitted, passed>>

Next ==
    \/ MainTitle
    \/ ConversationToMarkdown
    \/ Enter
    \/ Descend
    \/ Return
    \/ RenderMarkdown
    \/ GetFirstUserMessage
    \/ CountMessages
    \/ GenerateHtmlIndex

(***************************************************************************)
(* Inputs: conversation objects as json.load() hands them to main().       *)
(***************************************************************************)
MkNode(parent, children, m) ==
    JDict([parent |-> parent, children |-> children, message |-> m])
MkMessage(author, content, create_time) ==
    JDict([author |-> author, content |-> content, create_time |-> create_time])
MkAuthor(role) == JDict([role |-> role])
MkContent(content_type, parts, t) ==
    JDict([content_type |-> content_type, parts |-> parts, text |-> t])
MkPart(content_type, t) == JDict([content_type |-> content_type, text |-> t])
MkConv(t, mapping) == [title |-> t, mapping |-> mapping]

TextMessage(role, s, time) ==
    MkMessage(MkAuthor(JStr(role)),
              MkContent(JStr("text"), JList(<<JStr(s)>>), Absent), time)

\* The sequences over S of length n, and of length at most n.
RECURSIVE SeqsOfLen(_, _)
SeqsOfLen(S, n) ==
    IF n = 0 THEN {<<>>}
    ELSE {Append(q, x) : q \in SeqsOfLen(S, n - 1), x \in S}
RECURSIVE SeqsUpTo(_, _)
SeqsUpTo(S, n) ==
    IF n = 0 THEN {<<>>} ELSE SeqsUpTo(S, n - 1) \cup SeqsOfLen(S, n)

\* A text longer than the preview limit, with blanks and a newline in it.
RECURSIVE Filler(_, _)
Filler(from, to) ==
    IF from > to THEN ""
    ELSE IF from = to THEN (IF from % 7 = 0 THEN " " ELSE "x")
    ELSE Filler(from, (from + to) \div 2) \o Filler((from + to) \div 2 + 1, to)
LongText == " a\nb" \o Filler(5, LongLen)

\* Node identifiers; DanglingId is never a key of a mapping.
DanglingId == "z"
\* Key orders with the places of the parentless nodes: "N" parent null,
\* "A" parent key absent, "P" a parent.
Shapes(n) ==
    CASE n = 0 -> {<<>>} \X {<<>>}
      [] n = 1 -> {<<"a">>, <<"">>} \X SeqsOfLen({"N", "P"}, 1)
      [] n = 2 -> {<<"a", "b">>, <<"", "a">>} \X SeqsOfLen({"N", "A", "P"}, 2)
      [] n = 3 -> {<<<<"a", "b", "c">>, <<"N", "P", "P">>>>,
                   <<<<"a", "b", "c">>, <<"A", "N", "P">>>>,
                   <<<<"", "a", "b">>, <<"N", "P", "P">>>>}
ParentValue(tag, ks) ==
    CASE tag = "N" -> None
      [] tag = "A" -> Absent
      [] tag = "P" -> JStr(ks[1])

\* The children lists of n nodes, as one list of edges <<p, t>> in node
\* order: the p-th node lists the t-th node, or (t = 0) the dangling id.
EdgeLists(n, targets) ==
    {E \in SeqsUpTo((1..n) \X targets, MaxEdges) :
        \A i \in 1..(Len(E) - 1) : E[i][1] <= E[i + 1][1]}
RECURSIVE ChildrenFrom(_, _, _)
ChildrenFrom(E, p, ks) ==
    IF E = <<>> THEN <<>>
    ELSE (IF Head(E)[1] = p
          THEN <<IF Head(E)[2] = 0 THEN DanglingId ELSE ks[Head(E)[2]]>>
          ELSE <<>>) \o ChildrenFrom(Tail(E), p, ks)

\* One message per identifier, so that the output shows which nodes it holds.
StdMessage(id) ==
    CASE id = "a" -> TextMessage("user", "A", JNum(1))
      [] id = "b" -> TextMessage("assistant", "B", JNum(2))
      [] id = "c" -> TextMessage("tool", "C", None)
      [] OTHER -> TextMessage("user", "E", JNum(4))

\* Every shape of the children lists, over a few key orders and root places.
RECURSIVE StructureMapping(_, _, _, _)
StructureMapping(ks, tags, E, i) ==
    IF i > Len(ks) THEN <<>>
    ELSE <<[id |-> ks[i],
            node |-> MkNode(ParentValue(tags[i], ks), JList(ChildrenFrom(E, i, ks)),
                            StdMessage(ks[i]))]>>
            \o StructureMapping(ks, tags, E, i + 1)
StructuresOf(n) ==
    {StructureMapping(sh[1], sh[2], E, 1) : sh \in Shapes(n), E \in EdgeLists(n, 0..n)}
StructureMappings ==
    StructuresOf(0) \cup StructuresOf(1) \cup StructuresOf(2) \cup StructuresOf(3)

\* Messages of every role, with and without text.
MessagePalette ==
    {Absent, None,
     TextMessage("user", "Hi", JNum(1)),
     TextMessage("assistant", "Yo\nyo", JNum(2)),
     TextMessage("tool", "T", None),
     TextMessage("system", "S", JNum(3)),
     TextMessage("user", "", JNum(5)),
     MkMessage(Absent, MkContent(JStr("text"), JList(<<JStr("U")>>), Absent), Absent)}

\* Four shapes over the keys a, b, c: a chain, a branch listed against the
\* iteration order, a node linked by its parent field only, and no root.
RoleShapes ==
    {<<[p |-> None, c |-> <<"b">>], [p |-> JStr("a"), c |-> <<"c">>],
       [p |-> JStr("b"), c |-> <<>>]>>,
     <<[p |-> None, c |-> <<"c", "b">>], [p |-> JStr("a"), c |-> <<>>],
       [p |-> JStr("a"), c |-> <<>>]>>,
     <<[p |-> None, c |-> <<"b">>], [p |-> JStr("a"), c |-> <<>>],
       [p |-> JStr("a"), c |-> <<>>]>>,
     <<[p |-> JStr("c"), c |-> <<"b">>], [p |-> JStr("a"), c |-> <<"c">>],
       [p |-> JStr("b"), c |-> <<>>]>>}
RoleEntry(id, shape, m) == [id |-> id, node |-> MkNode(shape.p, JList(shape.c), m)]
RoleMappings ==
    {<<RoleEntry("a", sh[1], ms[1]), RoleEntry("b", sh[2], ms[2]),
       RoleEntry("c", sh[3], ms[3])>> :
        sh \in RoleShapes, ms \in MessagePalette \X MessagePalette \X MessagePalette}

\* Content payloads of every type, with every short list of parts.
PartPalette ==
    {JStr(""), JStr("Hi"), JStr(" \n a\nb "), JStr(LongText),
     MkPart(JStr("image_asset_pointer"), JStr("x")),
     MkPart(Absent, JStr("T")), MkPart(Absent, Absent), JNum(5)}
ContentTypes ==
    {Absent, JStr("text"), JStr("multimodal_text"), JStr("code"), JStr("tether_quote")}
PartLists == {Absent} \cup {JList(q) : q \in SeqsUpTo(PartPalette, MaxParts)}
CodeTexts == {Absent, JStr(""), JStr("print(1)")}
UserMessage(content) == MkMessage(MkAuthor(JStr("user")), content, None)
RichMessages ==
    {UserMessage(MkContent(ct, ps, Absent)) :
        ct \in {JStr("text"), JStr("multimodal_text")}, ps \in PartLists}
    \cup {UserMessage(MkContent(ct, ps, t)) :
        ct \in ContentTypes, ps \in {Absent, JList(<<JStr("Hi")>>)}, t \in CodeTexts}
    \cup {UserMessage(Absent), MkMessage(Absent, Absent, Absent),
          MkMessage(MkAuthor(Absent), MkContent(Absent, Absent, Absent), JNum(9))}
TextMappings ==
    {<<[id |-> "a", node |-> MkNode(None, JList(<<>>), m)]>> : m \in RichMessages}

\* The end-to-end scenario: root -> a (user "Hi") -> b (assistant "Hello").
ScenarioMapping ==
    <<[id |-> "root", node |-> MkNode(None, JList(<<"a">>), Absent)],
      [id |-> "a", node |-> MkNode(JStr("root"), JList(<<"b">>),
                                   TextMessage("user", "Hi", JNum(1)))],
      [id |-> "b", node |-> MkNode(JStr("a"), JList(<<>>),
                                   TextMessage("assistant", "Hello", JNum(2)))]>>
Titles == {Absent, JStr(""), JStr("Chat")}

ConvInputs ==
    {MkConv(JStr("Chat"), m) : m \in StructureMappings \cup RoleMappings \cup TextMappings}
        \cup {MkConv(t, ScenarioMapping) : t \in Titles}

Init == \E c \in ConvInputs : InitState(c)

Spec == Init /\ [][Next]_vars

\* Every shape of the children lists of one, two and three nodes under the
\* first node as the root (a dangling child among one or two nodes).
CyclicMappings ==
    {StructureMapping(<<"a">>, <<"N">>, E, 1) : E \in EdgeLists(1, 0..1)}
    \cup {StructureMapping(<<"a", "b">>, <<"N", "P">>, E, 1) : E \in EdgeLists(2, 0..2)}
    \cup {StructureMapping(<<"a", "b", "c">>, <<"N", "P", "P">>, E, 1) :
            E \in EdgeLists(3, 1..3)}

FairInit == \E m \in CyclicMappings : InitState(MkConv(JStr("Chat"), m))

\* A call of traverse runs on until it returns: nothing suspends it.
TraverseStep == Enter \/ Descend \/ Return
FairSpec == FairInit /\ [][Next]_vars /\ WF_vars(TraverseStep)

(***************************************************************************)
(* Inputs with a null, a missing key or a number where the code reads a    *)
(* field of the scenario's node a.                                         *)
(***************************************************************************)
Sites ==
    {"children", "message", "author", "role", "content", "content_type",
     "parts", "part", "part_text", "create_time"}
BadValues == {Absent, None, JNum(7)}

BadPart(site, bad) ==
    IF site = "part" THEN bad
    ELSE IF site = "part_text" THEN MkPart(Absent, bad) ELSE JStr("Hi")
BadContent(site, bad) ==
    IF site = "content" THEN bad
    ELSE MkContent(IF site = "content_type" THEN bad ELSE JStr("text"),
                   IF site = "parts" THEN bad ELSE JList(<<BadPart(site, bad)>>),
                   Absent)
BadMessage(site, bad) ==
    IF site = "message" THEN bad
    ELSE MkMessage(IF site = "author" THEN bad
                   ELSE MkAuthor(IF site = "role" THEN bad ELSE JStr("user")),
                   BadContent(site, bad),
                   IF site = "create_time" THEN bad ELSE JNum(1))
BadMapping(site, bad) ==
    <<[id |-> "root", node |-> MkNode(None, JList(<<"a">>), None)],
      [id |-> "a", node |-> MkNode(JStr("root"),
                                   IF site = "children" THEN bad ELSE JList(<<"b">>),
                                   BadMessage(site, bad))],
      [id |-> "b", node |-> MkNode(JStr("a"), JList(<<>>),
                                   TextMessage("assistant", "Hello", JNum(2)))]>>
MalformedInputs ==
    {MkConv(JStr("Chat"), BadMapping(site, bad)) :
        site \in Sites, bad \in BadValues}
        \cup {MkConv(None, ScenarioMapping)}

InitMalformed == \E c \in MalformedInputs : InitState(c)

SpecMalformed == InitMalformed /\ [][Next]_vars

(***************************************************************************)
(* What the claims speak of, stated from the mapping alone.                *)
(***************************************************************************)
Returned == pc \in {"render", "preview", "count", "index", "done"}

NodeAt(i) == Mapping[i].node
ListedChildren(node) ==
    IF node.v.children = Absent \/ node.v.children.k # "list"
    THEN <<>> ELSE node.v.children.v

\* Number of times id is listed as a child, over all children lists.
TimesListed(id) ==
    Cardinality(UNION {
        {<<i, j>> : j \in {j \in 1..Len(ListedChildren(NodeAt(i))) :
                            ListedChildren(NodeAt(i))[j] = id}} :
        i \in 1..Len(Mapping)})

\* Every identifier of the mapping: its keys and the entries of its lists.
AllIds ==
    Keys(Mapping) \cup
    UNION {{ListedChildren(NodeAt(i))[j] : j \in 1..Len(ListedChildren(NodeAt(i)))} :
            i \in 1..Len(Mapping)}

Parentless == {i \in 1..Len(Mapping) : Get(NodeAt(i).v.parent) = None}
FirstParentless == CHOOSE i \in Parentless : \A j \in Parentless : i <= j

\* The role a node's message carries, None when it carries none.
RoleOf(node) ==
    LET m == Get(node.v.message)
    IN  IF IsDict(m) /\ m.v.author # Absent /\ IsDict(m.v.author)
        THEN Get(m.v.author.v.role) ELSE None

\* Depth-first pre-order from the identifiers in todo: first encounters only,
\* each node's own children list in list order.
RECURSIVE PreorderFrom(_, _)
PreorderFrom(todo, seen) ==
    IF todo = <<>> THEN <<>>
    ELSE IF Head(todo) \in seen \/ Head(todo) \notin Keys(Mapping)
         THEN PreorderFrom(Tail(todo), seen)
         ELSE <<Head(todo)>>
                \o PreorderFrom(ListedChildren(NodeOf(Mapping, Head(todo))) \o Tail(todo),
                                seen \cup {Head(todo)})

Preorder ==
    IF Parentless = {} THEN <<>> ELSE PreorderFrom(<<Mapping[FirstParentless].id>>, {})

ShownNode(id) ==
    LET node == NodeOf(Mapping, id)
    IN  /\ RoleOf(node) \in {JStr("user"), JStr("assistant"), JStr("tool")}
        /\ extract_message_text(Get(node.v.message)) \notin {None, JStr("")}
RecordOf(id) ==
    LET m == NodeOf(Mapping, id).v.message
    IN  [role |-> RoleOf(NodeOf(Mapping, id)).v, text |-> extract_message_text(m).v,
         time |-> Get(m.v.create_time)]
ReferenceThread ==
    LET shown == SelectSeq(Preorder, ShownNode)
    IN  [i \in 1..Len(shown) |-> RecordOf(shown[i])]

NoDuplicates(q) == \A i, j \in 1..Len(q) : q[i] = q[j] => i = j

\* C1: during build_message_thread each node identifier is processed at most
\* once, whatever the children lists hold (cycles, diamonds, repeats): the
\* visited set only grows, every pass of the visited guard adds a new
\* identifier, a node's message is appended at most once, and the output
\* never has more records than the mapping has nodes.
C1_VisitedAtMostOnce ==
    [][/\ visited \subseteq visited'
       /\ passed' = Cardinality(visited')
       /\ NoDuplicates(emitted')
       /\ Len(messages') = Len(emitted')
       /\ Len(messages') <= Len(Mapping)]_vars

\* A finished run over a mapping in which a visited node with a message is
\* listed as a child at least twice.
C1_Witness ==
    /\ pc = "done"
    /\ \E i \in 1..Len(emitted) : TimesListed(emitted[i]) >= 2
    /\ Len(messages) >= 2

\* C2: for every mapping with a root, the output of build_message_thread is
\* the depth-first pre-order walk from the root over the children lists,
\* keeping the nodes with a role in {user, assistant, tool} and non-empty
\* extracted text, each as {role, text, time}.
C2_OutputIsPreorder == Returned => messages = ReferenceThread

\* C3: the traversal starts at the first node in iteration order whose parent
\* is absent, whatever its identifier; with no such node, or an empty
\* mapping, no node is visited and the result is empty.
C3_StartsAtFirstParentless ==
    pc \notin {"main", "markdown"} =>
        IF Parentless = {}
        THEN visited = {} /\ stack = <<>> /\ messages = <<>>
        ELSE \/ stack # <<>> /\ stack[1].id = Mapping[FirstParentless].id
             \/ stack = <<>> /\ Mapping[FirstParentless].id \in visited

\* C4: build_message_thread and extract_message_text never end in an error,
\* whatever optional field of a node is absent, null or of another shape.
C4_NeverRaises ==
    ~(pc = "raised" /\ err.where \in {"traverse", "extract_message_text"})

\* The contribution of one part, as a list of at most one string.
Contribution(part) ==
    CASE part.k = "str" -> <<part.v>>
      [] part.k = "dict" /\ part.v.content_type = JStr("image_asset_pointer") -> <<"[Image]">>
      [] part.k = "dict" /\ part.v.content_type # JStr("image_asset_pointer")
            /\ part.v.text # Absent -> <<part.v.text.v>>
      [] OTHER -> <<>>
RECURSIVE Contributions(_)
Contributions(parts) ==
    IF parts = <<>> THEN <<>>
    ELSE Contributions(SubSeq(parts, 1, Len(parts) - 1)) \o Contribution(parts[Len(parts)])
RECURSIVE Joined(_)
Joined(q) ==
    IF Len(q) = 1 THEN q[1]
    ELSE Joined(SubSeq(q, 1, Len(q) - 1)) \o "\n" \o q[Len(q)]
ExpectedText(m) ==
    IF m.v.content = Absent THEN None
    ELSE LET c == m.v.content.v
         IN  CASE c.content_type \in {JStr("text"), JStr("multimodal_text")} ->
                    LET q == Contributions(IF c.parts = Absent THEN <<>> ELSE c.parts.v)
                    IN  IF q = <<>> THEN None ELSE JStr(Joined(q))
               [] c.content_type = JStr("code") ->
                    JStr("'''\n" \o (IF c.text = Absent THEN "" ELSE c.text.v) \o "\n'''")
               [] OTHER -> None

\* C5: on a message with content_type text or multimodal_text,
\* extract_message_text returns the contributions of the parts joined by
\* newlines in part order (a string itself, an image_asset_pointer object
\* "[Image]", another object with a text field that text, anything else
\* nothing), None exactly when nothing contributes; for code the text field
\* in a fence with no language tag; for every other content_type None.
C5_ExtractedText == Truthy(message) => text = ExpectedText(message)

\* An image part and a string part of a multimodal_text message were joined.
C5_Witness ==
    /\ text = JStr("[Image]\nHi")
    /\ message.v.content.v.content_type = JStr("multimodal_text")
    /\ pc = "done"

\* The text of the i-th node if its message is a user message, else None.
UserTextAt(i) ==
    IF RoleOf(NodeAt(i)) = JStr("user")
    THEN extract_message_text(Get(NodeAt(i).v.message)) ELSE None
Qualifying == {i \in 1..Len(Mapping) : UserTextAt(i) \notin {None, JStr("")}}
FirstQualifying == CHOOSE i \in Qualifying : \A j \in Qualifying : i <= j
Char(s, i) == SubSeq(s, i, i)
\* r is s with its newlines turned into blanks, trimmed, cut to 150 characters.
IsPreviewOf(r, s) ==
    LET inner == {i \in 1..Len(s) : Char(s, i) \notin {" ", "\t", "\n", "\r"}}
    IN  IF inner = {} THEN r = ""
        ELSE LET lo == CHOOSE i \in inner : \A j \in inner : i <= j
                 hi == CHOOSE i \in inner : \A j \in inner : i >= j
             IN  /\ Len(r) = (IF hi - lo + 1 < 150 THEN hi - lo + 1 ELSE 150)
                 /\ \A j \in 1..Len(r) :
                        Char(r, j) = (IF Char(s, lo + j - 1) = "\n" THEN " "
                                      ELSE Char(s, lo + j - 1))

\* C6: get_first_user_message returns the text of the first node, in
\* iteration order, with a user message and non-empty extracted text, its
\* newlines replaced by blanks, trimmed and cut to its first 150 characters
\* (no word-boundary adjustment), and "" when there is no such node; it is
\* never longer than 150 characters and holds no newline.
C6_Preview ==
    pc \in {"count", "index", "done"} =>
        /\ IF Qualifying = {} THEN preview = JStr("")
           ELSE IsPreviewOf(preview.v, UserTextAt(FirstQualifying).v)
        /\ Len(preview.v) <= 150
        /\ \A j \in 1..Len(preview.v) : Char(preview.v, j) # "\n"

\* A preview cut from a text of more than 150 characters with a newline in it.
C6_Witness ==
    /\ pc = "done"
    /\ Qualifying # {}
    /\ Len(UserTextAt(FirstQualifying).v) > 150
    /\ \E j \in 1..150 : Char(UserTextAt(FirstQualifying).v, j) = "\n"
    /\ Len(preview.v) = 150

ExpectedCount ==
    Cardinality({i \in 1..Len(Mapping) :
        RoleOf(NodeAt(i)) \in {JStr("user"), JStr("assistant")}})

\* C7: count_messages returns the number of nodes whose message role is user
\* or assistant, reachable from the root or not, tool and all other roles
\* excluded; a mapping without a parentless node yields an empty thread, and
\* a count of 0 only if it holds no user or assistant node.
C7_MessageCount ==
    pc \in {"index", "done"} =>
        /\ message_count = JNum(ExpectedCount)
        /\ Parentless = {} =>
            /\ messages = <<>>
            /\ message_count = JNum(0) <=> ExpectedCount = 0

\* A mapping without a root, holding a tool message, counted two or more.
C7_Witness ==
    /\ pc = "done"
    /\ Parentless = {}
    /\ messages = <<>>
    /\ message_count.v >= 2
    /\ \E i \in 1..Len(Mapping) : RoleOf(NodeAt(i)) = JStr("tool")

\* C8: the assembled title is "Untitled Conversation" whenever the
\* conversation's title is absent or empty (missing key, null, empty string)
\* and the conversation's own title otherwise, and assembling never ends in
\* an error.
C8_DefaultTitle ==
    /\ pc \notin {"main", "markdown"} =>
        LET expected == IF conv.title \in {Absent, None, JStr("")}
                        THEN JStr("Untitled Conversation") ELSE conv.title
        IN  title = expected /\ md_title = expected
    /\ ~(pc = "raised" /\ err.where = "generate_html_index")

\* C9: build_message_thread terminates on every mapping, cyclic children
\* lists included: every call of traverse returns, and at most as many calls
\* pass the visited guard as there are distinct identifiers among the keys
\* and the entries of the children lists.
C9_TraverseTerminates ==
    /\ (stack # <<>>) ~> (stack = <<>>)
    /\ [](passed <= Cardinality(AllIds))

\* A finished traversal in which a visited node lists the root as a child.
C9_Witness ==
    /\ pc = "done"
    /\ passed >= 2
    /\ \E i \in 1..Len(Mapping) :
        /\ Mapping[i].id \in visited
        /\ \E j \in 1..Len(ListedChildren(NodeAt(i))) :
                ListedChildren(NodeAt(i))[j] = root.v

ThreadCount ==
    Cardinality({i \in 1..Len(messages) : messages[i].role \in {"user", "assistant"}})
SingleRootedTree ==
    /\ Cardinality(Parentless) = 1
    /\ AllIds = Keys(Mapping)
    /\ \A i \in 1..Len(Mapping) :
        TimesListed(Mapping[i].id) = (IF i = FirstParentless THEN 0 ELSE 1)
    /\ Keys(Mapping) = {Preorder[i] : i \in 1..Len(Preorder)}
EveryTextNonEmpty ==
    \A i \in 1..Len(Mapping) :
        RoleOf(NodeAt(i)) \in {JStr("user"), JStr("assistant")} =>
            extract_message_text(Get(NodeAt(i).v.message)) \notin {None, JStr("")}

\* C10: the thread holds at most as many user and assistant records as
\* count_messages counts, and exactly as many when the mapping is a
\* single-rooted tree, every node reachable from the root, every user and
\* assistant message with non-empty text.
C10_ThreadWithinCount ==
    pc = "done" =>
        /\ ThreadCount <= message_count.v
        /\ SingleRootedTree /\ EveryTextNonEmpty => ThreadCount = message_count.v

====
